---- MODULE Spec2Model ----
(***************************************************************************)
(* Model of the speech pipeline of src/pipeline.py: run_full_pipeline, the *)
(* generator that drives research, the parallel drafts, the judge, the     *)
(* critique/enhancement loop and the differentiation memory                *)
(* (speech_history.json).                                                  *)
(*                                                                         *)
(* Texts are run-length encoded strings: a sequence of runs [ch, n], n > 0,*)
(* adjacent runs of different characters.  A character is a triple         *)
(* <<kind, idx, run>> naming the generation call that produced it, or WS   *)
(* for whitespace, so that a text returned by one call is never equal to   *)
(* the text returned by another and slicing and stripping are computed on  *)
(* the characters as Python computes them.                                 *)
(***************************************************************************)
EXTENDS Integers, Sequences, FiniteSets, TLC

\* ---------------------------------------------------------------- bounds
MaxDrafts == 4      \* draft variants configured: 2..MaxDrafts
MaxReplyLen == 3    \* tokens in a judge reply, when replies are enumerated
MaxRuns == 25       \* successful runs, scripted judge replies and two variants
RichRuns == 1       \* successful runs, enumerated judge replies (two or three
                    \* variants) or more variants than two
MaxConcurrent == 2  \* successful runs of each session, when two sessions run
MaxGenerations == 4 \* runs of a front-end session that reach their last yield
MaxEmptyReplies == 1 \* times the last stage's reply is the empty string
MaxReflections == 6 \* calls of save_reflection
MaxDays == 6        \* days the calendar runs through

\* ------------------------------------------------------ program constants
OpeningLen == 300   \* text[:300]
HistoryCap == 20    \* openings[-20:]
PrefixEntries == 5  \* openings[-5:]
NumStages == 4      \* len(ENHANCEMENT_STAGES)
ShippedDrafts == 2  \* len(DRAFT_VARIANTS)
TemplateDrafts == 3 \* draft_a, draft_b, draft_c of JUDGE_PROMPT["user_template"]
FREE_EPISODE_LIMIT == 3

\* ------------------------------------------------------------------ texts
WS == <<"ws", 0, 0>>

\* text[:k]
RECURSIVE Slice(_, _)
Slice(t, k) ==
    IF t = <<>> \/ k <= 0 THEN <<>>
    ELSE IF Head(t).n >= k THEN << [ch |-> Head(t).ch, n |-> k] >>
    ELSE << Head(t) >> \o Slice(Tail(t), k - Head(t).n)

RECURSIVE LStrip(_)
LStrip(t) ==
    IF t = <<>> THEN <<>>
    ELSE IF Head(t).ch = WS THEN LStrip(Tail(t)) ELSE t

RECURSIVE RStrip(_)
RStrip(t) ==
    IF t = <<>> THEN <<>>
    ELSE IF t[Len(t)].ch = WS THEN RStrip(SubSeq(t, 1, Len(t) - 1)) ELSE t

\* str.strip()
Strip(t) == RStrip(LStrip(t))

\* seq[-k:]
LastN(s, k) == IF Len(s) <= k THEN s ELSE SubSeq(s, Len(s) - k + 1, Len(s))

\* The generation client's double: the text a call returns is fixed by the
\* call (kind, idx) and the run; its shape varies with the run so that short
\* texts, texts longer than the opening, leading whitespace and whitespace
\* across the 300th character all occur.
StubText(kind, idx, run) ==
    LET c == <<kind, idx, run>> IN
    CASE run % 4 = 0 -> << [ch |-> c, n |-> 120] >>
      [] run % 4 = 1 -> << [ch |-> WS, n |-> 2], [ch |-> c, n |-> 400] >>
      [] run % 4 = 2 -> << [ch |-> c, n |-> 298], [ch |-> WS, n |-> 5], [ch |-> c, n |-> 40] >>
      [] OTHER       -> << [ch |-> c, n |-> 350] >>

\* -------------------------------------------------------- stage catalog
\* DRAFT_VARIANTS[i]["label"]
VariantLabel(i) == <<"Draft", i>>

\* results = [None] * num_drafts
None == [label |-> <<>>, text |-> <<>>]

\* ENHANCEMENT_STAGES[i]["name"]
StageName(i) ==
    CASE i = 0 -> "Stage 2: Deep Enhancement"
      [] i = 1 -> "Stage 3: De-AI & Voice Authenticity"
      [] i = 2 -> "Stage 4: Oral Delivery Optimization"
      [] OTHER -> "Stage 5: Final Polish"

\* mutant: the stage about to run is named as the completed one
PrevStageName_Current(i) == IF i = 0 THEN "Draft Selection (Judge)" ELSE StageName(i)

\* prev_stage_name of the loop body
PrevStageName(i) == IF i = 0 THEN "Draft Selection (Judge)" ELSE StageName(i - 1)

\* ----------------------------------------------------------------- judge
\* A judge reply is a sequence of tokens: "WINNER:" and "BORROW:" stand for
\* the literals the two regular expressions look for, " " for whitespace,
\* the letters for themselves and "x" for any other text.
ReplyTokens == {"WINNER:", " ", "A", "B", "c", "x"}

RECURSIVE SeqsUpTo(_, _)
SeqsUpTo(S, n) ==
    IF n = 0 THEN {<<>>}
    ELSE LET shorter == SeqsUpTo(S, n - 1)
         IN  shorter \cup {Append(s, x) : s \in {q \in shorter : Len(q) = n - 1}, x \in S}

\* str.upper() on a letter token
Upper(tok) ==
    CASE tok = "a" -> "A"
      [] tok = "b" -> "B"
      [] tok = "c" -> "C"
      [] OTHER -> tok

\* the character class of `pattern`: [AB] for two drafts, [ABC] otherwise
PatternLetters(n) == IF n = 2 THEN {"A", "B"} ELSE {"A", "B", "C"}

\* letter_map
LetterMap(n) ==
    IF n = 2 THEN [l \in {"A", "B"} |-> IF l = "A" THEN 0 ELSE 1]
    ELSE [l \in {"A", "B", "C"} |-> CASE l = "A" -> 0 [] l = "B" -> 1 [] OTHER -> 2]

\* \s* from position q: the first position at or after q that is no whitespace
RECURSIVE SkipWs(_, _)
SkipWs(reply, q) ==
    IF q <= Len(reply) /\ reply[q] = " " THEN SkipWs(reply, q + 1) ELSE q

\* WINNER:\s*([AB]) matched at position p, re.IGNORECASE: group(1), or "" for no match
MatchAt(reply, p, n) ==
    IF reply[p] # "WINNER:" THEN ""
    ELSE LET q == SkipWs(reply, p + 1)
         IN  IF q <= Len(reply) /\ Upper(reply[q]) \in PatternLetters(n)
             THEN reply[q] ELSE ""

\* re.search: the leftmost match from position p on
RECURSIVE SearchFrom(_, _, _)
SearchFrom(reply, p, n) ==
    IF p > Len(reply) THEN ""
    ELSE IF MatchAt(reply, p, n) # "" THEN MatchAt(reply, p, n)
    ELSE SearchFrom(reply, p + 1, n)

\* mutant: the letters are numbered from 1
WinnerIndex_OneBased(judgment, n) ==
    LET m == SearchFrom(judgment, 1, n)
        winner_letter == IF m # "" THEN Upper(m) ELSE "A"
    IN  IF winner_letter \in DOMAIN LetterMap(n) THEN LetterMap(n)[winner_letter] + 1 ELSE 0

\* winner_letter, winner_index
WinnerIndex(judgment, n) ==
    LET m == SearchFrom(judgment, 1, n)
        winner_letter == IF m # "" THEN Upper(m) ELSE "A"
    IN  IF winner_letter \in DOMAIN LetterMap(n) THEN LetterMap(n)[winner_letter] ELSE 0

RECURSIVE StripTokens(_)
StripTokens(r) ==
    IF r = <<>> THEN <<>>
    ELSE IF Head(r) = " " THEN StripTokens(Tail(r))
    ELSE IF r[Len(r)] = " " THEN StripTokens(SubSeq(r, 1, Len(r) - 1))
    ELSE r

\* BORROW FROM LOSER[S]?:\s*\n(.*) with re.DOTALL: everything after the first heading
RECURSIVE BorrowNotes(_)
BorrowNotes(judgment) ==
    IF judgment = <<>> THEN <<>>
    ELSE IF Head(judgment) = "BORROW:" THEN StripTokens(Tail(judgment))
    ELSE BorrowNotes(Tail(judgment))

\* mutant: the first two drafts change places in the prompt
JudgePrompt_Swapped(d) ==
    IF Cardinality(DOMAIN d) = 2
    THEN [template |-> "user_template_2", topic |-> "topic",
          draft_a |-> d[1].text, draft_b |-> d[0].text, draft_c |-> <<>>]
    ELSE [template |-> "user_template", topic |-> "topic",
          draft_a |-> d[1].text, draft_b |-> d[0].text, draft_c |-> d[2].text]

\* user_content of run_judge: user_template_2 for two drafts, user_template
\* (three placeholders) otherwise
JudgePrompt(d) ==
    IF Cardinality(DOMAIN d) = 2
    THEN [template |-> "user_template_2", topic |-> "topic",
          draft_a |-> d[0].text, draft_b |-> d[1].text, draft_c |-> <<>>]
    ELSE [template |-> "user_template", topic |-> "topic",
          draft_a |-> d[0].text, draft_b |-> d[1].text, draft_c |-> d[2].text]

\* mutant: label and text are taken from the first draft
JudgeVerdict_FirstDraft(d, judgment) ==
    LET winner_index == WinnerIndex(judgment, Cardinality(DOMAIN d))
    IN  [winner_index |-> winner_index,
         winner_label |-> d[0].label,
         winner_text |-> d[0].text,
         judgment |-> judgment,
         borrow_notes |-> BorrowNotes(judgment)]

\* the dict run_judge returns
JudgeVerdict(d, judgment) ==
    LET winner_index == WinnerIndex(judgment, Cardinality(DOMAIN d))
    IN  [winner_index |-> winner_index,
         winner_label |-> d[winner_index].label,
         winner_text |-> d[winner_index].text,
         judgment |-> judgment,
         borrow_notes |-> BorrowNotes(judgment)]

\* --------------------------------------------------- differentiation memory
\* mutant: the text is stripped before it is cut
SavedOpenings_StripsFirst(loaded, text) ==
    LastN(Append(loaded, Slice(Strip(text), OpeningLen)), HistoryCap)

\* mutant: the first 20 entries are kept
SavedOpenings_KeepsOldest(loaded, text) ==
    LET all == Append(loaded, Strip(Slice(text, OpeningLen)))
    IN  IF Len(all) <= HistoryCap THEN all ELSE SubSeq(all, 1, HistoryCap)

\* _save_opening: the list written back to HISTORY_FILE
SavedOpenings(loaded, text) ==
    LastN(Append(loaded, Strip(Slice(text, OpeningLen))), HistoryCap)

\* mutant: the five oldest entries are rendered
DiffPrefix_FirstFive(loaded) ==
    IF loaded = <<>> THEN [present |-> FALSE, previous_openings |-> <<>>]
    ELSE [present |-> TRUE,
          previous_openings |-> SubSeq(loaded, 1, IF Len(loaded) < PrefixEntries
                                                  THEN Len(loaded) ELSE PrefixEntries)]

\* diff_prefix of run_parallel_drafts
DiffPrefix(loaded) ==
    IF loaded = <<>> THEN [present |-> FALSE, previous_openings |-> <<>>]
    ELSE [present |-> TRUE, previous_openings |-> LastN(loaded, PrefixEntries)]

\* ------------------------------------------------------------------ state
VARIABLES
    stub,            \* the generation client's double: "enumerated" or "scripted" judge replies
    num_drafts,      \* len(DRAFT_VARIANTS)
    history,         \* "openings" of HISTORY_FILE
    pc,              \* where the generator stands: [kind, idx, at]
    events,          \* the tuples the generator has yielded in this run
    calls,           \* the generation calls of this run: input, status, output
    research,        \* locals of run_full_pipeline
    drafts,
    judge_result,
    current_text,
    critique,
    user_content,    \* locals of run_parallel_drafts
    futures,
    results,
    collected,       \* the futures as_completed has yielded, in that order
    openings,        \* local of _save_opening
    error,           \* the exception that ended the run
    runs_done,       \* runs that reached their last yield
    history_before,  \* HISTORY_FILE when the run started
    io,              \* how often this run has read and written HISTORY_FILE
    other,           \* _save_opening of a run in another session, and who wrote last
    waiter,          \* as_completed: the futures it found finished, those that
                     \* finished since, in order, and the branch that failed first
    app,             \* the front end: the signed-in user and st.session_state
    db,              \* speeches.db as a new connection sees it
    today,           \* the UTC date, as a day number
    ledger           \* what has been done so far: speeches saved, reflections
                     \* saved and the day of the last one, empty replies given

vars == <<stub, num_drafts, history, pc, events, calls, research, drafts,
          judge_result, current_text, critique, user_content, futures, results,
          collected, openings, error, runs_done, history_before, io, other,
          waiter, app, db, today, ledger>>

\* the generator and HISTORY_FILE
pipeline == <<stub, num_drafts, history, pc, events, calls, research, drafts,
              judge_result, current_text, critique, user_content, futures, results,
              collected, openings, error, runs_done, history_before, io, other,
              waiter>>

\* the front end, the database and the calendar
front == <<app, db, today, ledger>>

Variants == 0 .. num_drafts - 1

NoError == <<>>
NoVerdict == [winner_index |-> 0, winner_label |-> <<>>, winner_text |-> <<>>,
              judgment |-> <<>>, borrow_notes |-> <<>>]

At(kind, idx, at) == [kind |-> kind, idx |-> idx, at |-> at]

\* the run in progress, counted over the runs that saved their opening
ThisRun == runs_done + 1

\* a yielded tuple (step_name, step_type, data)
Event(kind, idx, status, data) ==
    [kind |-> kind, idx |-> idx, status |-> status, data |-> data]

Call(kind, idx, input) ==
    [kind |-> kind, idx |-> idx, input |-> input, status |-> "pending", output |-> <<>>]

\* the judge replies the double may give
ScriptedReply(run) ==
    CASE run % 3 = 0 -> <<"x", "WINNER:", " ", "B", " ", "BORROW:", " ", "x", " ">>
      [] run % 3 = 1 -> <<"WINNER:", "c", "BORROW:", "x">>
      [] OTHER       -> <<"x", "x">>

JudgeReplies ==
    IF stub = "enumerated" THEN SeqsUpTo(ReplyTokens, MaxReplyLen)
    ELSE {ScriptedReply(ThisRun)}

\* as_completed not called yet
NoWaiter ==
    [early |-> {}, finished_futures |-> <<>>, first_failed |-> -1, early_failed |-> {}]

\* no other session, or one whose run is about to save its opening
NoOther == [at |-> "off", openings |-> <<>>, done |-> 0, wrote_last |-> FALSE]
OneOther == [at |-> "idle", openings |-> <<>>, done |-> 0, wrote_last |-> FALSE]

\* long histories are built with the two variants DRAFT_VARIANTS holds
\* st.session_state values that may be None
NoneText == [set |-> FALSE, text |-> <<>>]

\* mutant: an empty final text is saved as well
Truthy_NotNone(v) == v.set

\* truth value of a str or None
Truthy(v) == v.set /\ v.text # <<>>

\* who is signed in: on FREE_ACCESS_EMAILS, with an active subscription, or neither
Users == {"listed", "subscribed", "free"}

NoApp == [on |-> FALSE, user |-> "free", running |-> FALSE, error |-> NoError,
          shown |-> NoError, final_text |-> NoneText, steps |-> 0, last_speech_id |-> 0]

\* user_streaks has no row for the user
NoRow == [exists |-> FALSE, current_streak |-> 0, longest_streak |-> 0,
          last_activity_date |-> 0, total_reflections |-> 0]

\* init_db: empty tables
NoRows == [speeches |-> {}, next_id |-> 1, reflections |-> 0, streak |-> NoRow]

RunLimit ==
    IF app.on THEN MaxGenerations
    ELSE IF other.at # "off" THEN MaxConcurrent
    ELSE IF stub = "scripted" /\ num_drafts = ShippedDrafts THEN MaxRuns
    ELSE RichRuns

InitRun ==
    /\ stub \in {"enumerated", "scripted"}
    /\ num_drafts \in 2 .. MaxDrafts
    /\ stub = "enumerated" => num_drafts <= TemplateDrafts
    /\ history = <<>>
    /\ pc = At("idle", 0, "idle")
    /\ events = <<>>
    /\ calls = <<>>
    /\ research = <<>>
    /\ drafts = <<>>
    /\ judge_result = NoVerdict
    /\ current_text = <<>>
    /\ critique = <<>>
    /\ user_content = [prefix |-> DiffPrefix(<<>>), topic |-> "topic", research |-> <<>>]
    /\ futures = [i \in Variants |-> [state |-> "idle", text |-> <<>>]]
    /\ results = [i \in Variants |-> None]
    /\ collected = <<>>
    /\ openings = <<>>
    /\ error = NoError
    /\ runs_done = 0
    /\ history_before = <<>>
    /\ io = [reads |-> 0, writes |-> 0]
    /\ waiter = NoWaiter
    /\ db = NoRows
    /\ today = 1
    /\ ledger = [generated |-> 0, reflected |-> 0, reflected_on |-> 0, empties |-> 0]

\* one session, the generator driven directly
Init == InitRun /\ other = NoOther /\ app = NoApp

\* two sessions of the server, one HISTORY_FILE
InitConcurrent ==
    /\ InitRun
    /\ stub = "scripted"
    /\ num_drafts = ShippedDrafts
    /\ other = OneOther
    /\ app = NoApp

\* one session of the front end, for each kind of user
InitApp ==
    /\ InitRun
    /\ stub = "scripted"
    /\ num_drafts = ShippedDrafts
    /\ other = NoOther
    /\ \E u \in Users : app = [NoApp EXCEPT !.on = TRUE, !.user = u]

\* --------------------------------------------------------- control flow
\* mutant: the loop over the stages ends one stage early
NextPhase_StopsEarly(kind, idx) ==
    CASE kind = "research" -> At("drafts", 0, "running")
      [] kind = "drafts"   -> At("judge", 0, "running")
      [] kind = "judge"    -> At("critique", 0, "running")
      [] kind = "critique" -> At("enhancement", idx, "running")
      [] OTHER             -> IF idx + 1 < NumStages - 1
                              THEN At("critique", idx + 1, "running")
                              ELSE At("save", 0, "loading")

\* mutant: the first critique is skipped, the judge having given feedback
NextPhase_SkipsFirstCritique(kind, idx) ==
    CASE kind = "research" -> At("drafts", 0, "running")
      [] kind = "drafts"   -> At("judge", 0, "running")
      [] kind = "judge"    -> At("enhancement", 0, "running")
      [] kind = "critique" -> At("enhancement", idx, "running")
      [] OTHER             -> IF idx + 1 < NumStages
                              THEN At("critique", idx + 1, "running")
                              ELSE At("save", 0, "loading")

\* the phase whose "running" tuple follows the "done" tuple of (kind, idx)
NextPhase(kind, idx) ==
    CASE kind = "research" -> At("drafts", 0, "running")
      [] kind = "drafts"   -> At("judge", 0, "running")
      [] kind = "judge"    -> At("critique", 0, "running")
      [] kind = "critique" -> At("enhancement", idx, "running")
      [] OTHER             -> IF idx + 1 < NumStages
                              THEN At("critique", idx + 1, "running")
                              ELSE At("save", 0, "loading")

\* data of a "running" tuple
RunningData(kind, idx) ==
    IF kind = "enhancement" THEN [status |-> "running", stage_index |-> idx]
    ELSE [status |-> "running"]

\* user_content of run_critique
CritiqueInput(topic, text, completed_stage, next_stage) ==
    [topic |-> topic, completed_stage |-> completed_stage,
     next_stage |-> next_stage, text |-> text]

\* mutant: the judge's borrow notes are handed to the stage as well
EnhancementInput_WithBorrow(stage_index, topic, research_, critique_, previous_output) ==
    [stage_index |-> stage_index, topic |-> topic, research |-> research_,
     critique |-> critique_, borrow_notes |-> judge_result.borrow_notes,
     previous_output |-> previous_output]

\* mutant: the critique placeholder is filled with the research brief
EnhancementInput_NoCritique(stage_index, topic, research_, critique_, previous_output) ==
    [stage_index |-> stage_index, topic |-> topic, research |-> research_,
     critique |-> research_, previous_output |-> previous_output]

\* user_content of run_enhancement_stage
EnhancementInput(stage_index, topic, research_, critique_, previous_output) ==
    [stage_index |-> stage_index, topic |-> topic, research |-> research_,
     critique |-> critique_, previous_output |-> previous_output]

\* the input of the call the generator makes at (kind, idx)
CallInput(kind, idx) ==
    CASE kind = "research" -> [topic |-> "topic"]
      [] kind = "judge"    -> JudgePrompt(drafts)
      [] kind = "critique" ->
             CritiqueInput("topic", current_text, PrevStageName(idx), StageName(idx))
      [] OTHER ->
             EnhancementInput(idx, "topic", research, critique, current_text)

SequentialKinds == {"research", "judge", "critique", "enhancement"}

\* the backend each call goes to
Provider(kind, idx) ==
    CASE kind = "critique" -> "openai"
      [] kind = "drafts" -> IF idx % 2 = 1 THEN "openai" ELSE "anthropic"
      [] OTHER -> "anthropic"

\* the classes the except clauses of _call_llm_safe name
ApiErrors == {"RateLimitError", "APIConnectionError", "AuthenticationError", "APIError"}

\* what _call_llm may raise: an error of the backend's library, of one of the
\* named classes ("APIError" standing for the ones only that clause matches),
\* or one that is no APIError, as the client constructor's without an API key.
\* The double whose judge replies are enumerated fails in one way only.
RawErrors(lib) ==
    [lib : {lib},
     cls : IF stub = "enumerated" THEN {"APIError"} ELSE ApiErrors \cup {"OtherError"}]

\* the exception that leaves _call_llm_safe when _call_llm raises exc
call_llm_safe(exc) ==
    IF exc.cls = "RateLimitError"
        THEN [type |-> "RuntimeError", message |-> <<"Rate limited by", exc.lib>>]
    ELSE IF exc.cls = "APIConnectionError"
        THEN [type |-> "RuntimeError", message |-> <<"Cannot reach", exc.lib>>]
    ELSE IF exc.cls = "AuthenticationError"
        THEN [type |-> "RuntimeError", message |-> <<"Invalid API key", exc.lib>>]
    ELSE IF exc.cls = "APIError"
        THEN [type |-> "RuntimeError", message |-> <<"API error", exc.lib>>]
    ELSE [type |-> exc.cls, message |-> <<>>]

\* the last call of the log gets its outcome
Settle(status, output) ==
    [calls EXCEPT ![Len(calls)].status = status, ![Len(calls)].output = output]

\* ------------------------------------------------------------- the gate
\* is_free_user(user["email"])
is_free_user == app.user = "listed"

\* get_user_subscription(user["id"])["status"]
subscription_status == IF app.user = "subscribed" THEN "active" ELSE "none"

\* SELECT COUNT(*) FROM speeches WHERE user_id = ?
count_user_speeches == Cardinality(db.speeches)

get_free_episodes_remaining ==
    LET used == count_user_speeches
    IN  IF FREE_EPISODE_LIMIT - used > 0 THEN FREE_EPISODE_LIMIT - used ELSE 0

can_generate_free == get_free_episodes_remaining > 0

user_can_generate ==
    \/ is_free_user
    \/ subscription_status = "active"
    \/ can_generate_free

\* ---------------------------------------------------------------- actions
Finished == pc.at \in {"idle", "finished", "raised", "closed"}

\* the caller starts a run and takes the first tuple
Start ==
    /\ Finished
    /\ runs_done < RunLimit
    /\ app.on => (~app.running /\ user_can_generate)
    /\ app' = IF app.on
              THEN [app EXCEPT !.running = TRUE, !.error = NoError, !.shown = NoError,
                               !.final_text = NoneText, !.steps = 0,
                               !.last_speech_id = 0]
              ELSE app
    /\ UNCHANGED <<db, today, ledger>>
    /\ history_before' = history
    /\ events' = << Event("research", 0, "running", RunningData("research", 0)) >>
    /\ calls' = <<>>
    /\ research' = <<>>
    /\ drafts' = <<>>
    /\ judge_result' = NoVerdict
    /\ current_text' = <<>>
    /\ critique' = <<>>
    /\ user_content' = [prefix |-> DiffPrefix(<<>>), topic |-> "topic", research |-> <<>>]
    /\ futures' = [i \in Variants |-> [state |-> "idle", text |-> <<>>]]
    /\ results' = [i \in Variants |-> None]
    /\ collected' = <<>>
    /\ openings' = <<>>
    /\ error' = NoError
    /\ pc' = At("research", 0, "running")
    /\ UNCHANGED <<stub, num_drafts, history, runs_done>>
    /\ io' = [reads |-> 0, writes |-> 0]
    /\ UNCHANGED other
    /\ waiter' = NoWaiter

\* mutant: the call is issued and not waited for
Invoke_NoWait ==
    /\ pc.at = "running"
    /\ pc.kind \in SequentialKinds
    /\ calls' = Append(calls, Call(pc.kind, pc.idx, CallInput(pc.kind, pc.idx)))
    /\ events' = Append(events, Event(pc.kind, pc.idx, "done", [status |-> "done"]))
    /\ pc' = At(pc.kind, pc.idx, "done")
    /\ UNCHANGED <<stub, num_drafts, history, research, drafts, judge_result,
                   current_text, critique, user_content, futures, results, collected,
                   openings, error, runs_done, history_before>>
    /\ UNCHANGED <<other, io>>
    /\ UNCHANGED waiter
    /\ UNCHANGED front

\* run_research, run_judge, run_critique, run_enhancement_stage: the call is issued
Invoke ==
    /\ pc.at = "running"
    /\ pc.kind \in SequentialKinds
    /\ calls' = Append(calls, Call(pc.kind, pc.idx, CallInput(pc.kind, pc.idx)))
    /\ pc' = At(pc.kind, pc.idx, "calling")
    /\ UNCHANGED <<stub, num_drafts, history, events, research, drafts, judge_result,
                   current_text, critique, user_content, futures, results, collected,
                   openings, error, runs_done, history_before>>
    /\ UNCHANGED <<other, io>>
    /\ UNCHANGED waiter
    /\ UNCHANGED front

CallsOf(kind, idx) == {j \in DOMAIN calls : calls[j].kind = kind /\ calls[j].idx = idx}

\* mutant: the run gives up a call that has not come back
Fail_TimesOut ==
    /\ pc.at = "calling"
    /\ pc.kind \in SequentialKinds
    /\ error' = <<pc.kind, pc.idx>>
    /\ pc' = At(pc.kind, pc.idx, "raised")
    /\ UNCHANGED <<stub, num_drafts, history, events, calls, research, drafts,
                   judge_result, current_text, critique, user_content, futures,
                   results, collected, openings, runs_done, history_before>>
    /\ UNCHANGED <<other, io>>
    /\ UNCHANGED waiter
    /\ UNCHANGED front

\* mutant: the failed call is issued again
Fail_Retries ==
    /\ pc.at = "calling"
    /\ pc.kind \in SequentialKinds
    /\ calls' = Append(Settle("failed", <<>>),
                       Call(pc.kind, pc.idx, CallInput(pc.kind, pc.idx)))
    /\ IF Cardinality(CallsOf(pc.kind, pc.idx)) >= 2
         THEN error' = <<pc.kind, pc.idx>> /\ pc' = At(pc.kind, pc.idx, "raised")
         ELSE UNCHANGED <<error, pc>>
    /\ UNCHANGED <<stub, num_drafts, history, events, research, drafts, judge_result,
                   current_text, critique, user_content, futures, results, collected,
                   openings, runs_done, history_before>>
    /\ UNCHANGED <<other, io>>
    /\ UNCHANGED waiter
    /\ UNCHANGED front

\* mutant: the phase's "done" tuple is yielded from a finally clause
Fail_YieldsDone ==
    /\ pc.at = "calling"
    /\ pc.kind \in SequentialKinds
    /\ calls' = Settle("failed", <<>>)
    /\ error' = <<pc.kind, pc.idx>>
    /\ events' = Append(events, Event(pc.kind, pc.idx, "done", [status |-> "done"]))
    /\ pc' = At(pc.kind, pc.idx, "raised")
    /\ UNCHANGED <<stub, num_drafts, history, research, drafts, judge_result,
                   current_text, critique, user_content, futures, results, collected,
                   openings, runs_done, history_before>>
    /\ UNCHANGED <<other, io>>
    /\ UNCHANGED waiter
    /\ UNCHANGED front

\* _call_llm_safe raises: the exception leaves the generator
Fail ==
    /\ pc.at = "calling"
    /\ pc.kind \in SequentialKinds
    /\ \E exc \in RawErrors(Provider(pc.kind, pc.idx)) :
           calls' = Settle("failed", call_llm_safe(exc))
    /\ error' = <<pc.kind, pc.idx>>
    /\ pc' = At(pc.kind, pc.idx, "raised")
    /\ UNCHANGED <<stub, num_drafts, history, events, research, drafts, judge_result,
                   current_text, critique, user_content, futures, results, collected,
                   openings, runs_done, history_before>>
    /\ UNCHANGED <<other, io>>
    /\ UNCHANGED waiter
    /\ UNCHANGED front

ResearchReturn ==
    /\ pc = At("research", 0, "calling")
    /\ LET text == StubText("research", 0, ThisRun) IN
        /\ research' = text
        /\ calls' = Settle("returned", text)
        /\ events' = Append(events,
               Event("research", 0, "done", [status |-> "done", text |-> text]))
    /\ pc' = At("research", 0, "done")
    /\ UNCHANGED <<stub, num_drafts, history, drafts, judge_result, current_text,
                   critique, user_content, futures, results, collected, openings,
                   error, runs_done, history_before>>
    /\ UNCHANGED <<other, io>>
    /\ UNCHANGED waiter
    /\ UNCHANGED front

\* the generator is resumed after a "done" tuple and yields the next "running" one
Resume ==
    /\ pc.at = "done"
    /\ LET next == NextPhase(pc.kind, pc.idx) IN
        /\ next.kind # "save"
        /\ current_text' = IF pc.kind = "judge" THEN judge_result.winner_text
                           ELSE current_text
        /\ events' = Append(events,
               Event(next.kind, next.idx, "running", RunningData(next.kind, next.idx)))
        /\ pc' = next
    /\ UNCHANGED <<stub, num_drafts, history, calls, research, drafts, judge_result,
                   critique, user_content, futures, results, collected, openings,
                   error, runs_done, history_before>>
    /\ UNCHANGED <<other, io>>
    /\ UNCHANGED waiter
    /\ UNCHANGED front

\* _generate: what the worker of variant idx returns
Generate(idx) ==
    [idx |-> idx, label |-> VariantLabel(idx), text |-> StubText("drafts", idx, ThisRun)]

\* mutant: results are appended as they complete
StoreResult_AsCompleted(res, idx, label, text) ==
    [res EXCEPT ![Len(collected)] = [label |-> label, text |-> text]]

\* results[idx] = {"label": label, "text": text}
StoreResult(res, idx, label, text) ==
    [res EXCEPT ![idx] = [label |-> label, text |-> text]]

\* mutant: the pool has half as many workers as there are variants
PoolSize_Half == num_drafts \div 2

\* ThreadPoolExecutor(max_workers=num_drafts)
PoolSize == num_drafts

\* executor.submit for each variant in turn: a work item gets a worker thread
\* while fewer than max_workers threads exist, and waits in the queue otherwise
Submitted ==
    [i \in Variants |->
        [state |-> IF i < PoolSize THEN "running" ELSE "queued", text |-> <<>>]]

\* a worker that has finished its item takes the oldest item of the queue
Promote(f) ==
    LET queued == {i \in Variants : f[i].state = "queued"}
    IN  IF queued = {} THEN f
        ELSE [f EXCEPT ![CHOOSE i \in queued : \A k \in queued : i <= k].state = "running"]

\* run_parallel_drafts up to executor.submit: history read, one call per variant
DraftsSubmit ==
    /\ pc = At("drafts", 0, "running")
    /\ LET content == [prefix |-> DiffPrefix(history), topic |-> "topic",
                       research |-> research] IN
        /\ user_content' = content
        /\ calls' = calls \o [j \in 1 .. num_drafts |-> Call("drafts", j - 1, content)]
    /\ futures' = Submitted
    /\ results' = [i \in Variants |-> None]
    /\ collected' = <<>>
    /\ pc' = At("drafts", 0, "submitted")
    /\ UNCHANGED <<stub, num_drafts, history, events, research, drafts, judge_result,
                   current_text, critique, openings, error, runs_done, history_before>>
    /\ io' = [io EXCEPT !.reads = @ + 1]
    /\ UNCHANGED other
    /\ waiter' = NoWaiter
    /\ UNCHANGED front

\* as_completed(futures) is entered: the futures that have finished by now
\* are yielded first, in no given order, the others as they finish
AsCompleted ==
    /\ pc = At("drafts", 0, "submitted")
    /\ pc' = At("drafts", 0, "calling")
    /\ waiter' = [waiter EXCEPT
           !.early = {i \in Variants : futures[i].state \in {"ok", "failed"}},
           !.early_failed = {i \in Variants : futures[i].state = "failed"}]
    /\ UNCHANGED <<stub, num_drafts, history, events, calls, research, drafts,
                   judge_result, current_text, critique, user_content, futures,
                   results, collected, openings, error, runs_done, history_before,
                   io, other>>
    /\ UNCHANGED front

\* a future finishes: the waiter of a running as_completed is told, and the
\* first branch to fail is remembered
Notified(i, failed) ==
    [waiter EXCEPT
        !.finished_futures = IF pc.at = "calling" THEN Append(@, i) ELSE @,
        !.first_failed = IF failed /\ @ = -1 THEN i ELSE @]

\* mutant: any finished future may be yielded next
NextYielded_Any ==
    {i \in Variants :
        /\ futures[i].state \in {"ok", "failed"}
        /\ \A j \in DOMAIN collected : collected[j] # i}

\* the futures as_completed may yield next
NextYielded ==
    IF waiter.early # {} THEN waiter.early
    ELSE IF waiter.finished_futures # <<>> THEN {Head(waiter.finished_futures)}
    ELSE {}

\* as_completed has yielded future i; an exception of future.result() ends it
Yielded(i) ==
    IF futures[i].state = "failed"
    THEN [waiter EXCEPT !.early = {}, !.finished_futures = <<>>]
    ELSE [waiter EXCEPT !.early = @ \ {i},
                        !.finished_futures = SelectSeq(@, LAMBDA k : k # i)]

CallOf(kind, idx) == CHOOSE j \in DOMAIN calls : calls[j].kind = kind /\ calls[j].idx = idx

\* a worker's generation call returns
FutureReturn(i) ==
    /\ pc.kind = "drafts"
    /\ futures[i].state = "running"
    /\ futures' = Promote([futures EXCEPT ![i] = [state |-> "ok", text |-> Generate(i).text]])
    /\ calls' = [calls EXCEPT ![CallOf("drafts", i)].status = "returned",
                              ![CallOf("drafts", i)].output = Generate(i).text]
    /\ UNCHANGED <<stub, num_drafts, history, pc, events, research, drafts,
                   judge_result, current_text, critique, user_content, results,
                   collected, openings, error, runs_done, history_before>>
    /\ UNCHANGED <<other, io>>
    /\ waiter' = Notified(i, FALSE)
    /\ UNCHANGED front

\* a worker's generation call raises: the future keeps the exception, which
\* is seen when future.result() raises it again
FutureFail(i) ==
    /\ pc.kind = "drafts"
    /\ futures[i].state = "running"
    /\ futures' = Promote([futures EXCEPT ![i] = [state |-> "failed", text |-> <<>>]])
    /\ calls' = [calls EXCEPT ![CallOf("drafts", i)].status = "failed"]
    /\ UNCHANGED <<stub, num_drafts, history, pc, events, research, drafts,
                   judge_result, current_text, critique, user_content, results,
                   collected, openings, error, runs_done, history_before>>
    /\ UNCHANGED <<other, io>>
    /\ waiter' = Notified(i, TRUE)
    /\ UNCHANGED front

\* the as_completed loop takes a finished future: future.result() returns or raises
Collect(i) ==
    /\ pc = At("drafts", 0, "calling")
    /\ \A j \in DOMAIN collected : collected[j] # i
    /\ futures[i].state \in {"ok", "failed"}
    /\ collected' = Append(collected, i)
    /\ IF futures[i].state = "ok"
       THEN /\ results' = StoreResult(results, Generate(i).idx, Generate(i).label,
                                      futures[i].text)
            /\ UNCHANGED <<pc, error, calls>>
       ELSE /\ error' = <<"drafts", i>>
            /\ pc' = At("drafts", 0, "draining")
            /\ \E exc \in RawErrors(Provider("drafts", i)) :
                   calls' = [calls EXCEPT ![CallOf("drafts", i)].output = call_llm_safe(exc)]
            /\ UNCHANGED results
    /\ UNCHANGED <<stub, num_drafts, history, events, research, drafts,
                   judge_result, current_text, critique, user_content, futures,
                   openings, runs_done, history_before>>
    /\ UNCHANGED <<other, io>>
    /\ i \in NextYielded
    /\ waiter' = Yielded(i)
    /\ UNCHANGED front

\* mutant: the exception leaves at once, the executor shut down without waiting
DraftsRaise_NoDrain ==
    /\ pc = At("drafts", 0, "draining")
    /\ pc' = At("drafts", 0, "raised")
    /\ UNCHANGED <<stub, num_drafts, history, events, calls, research, drafts,
                   judge_result, current_text, critique, user_content, futures,
                   results, collected, openings, error, runs_done, history_before>>
    /\ UNCHANGED <<other, io>>
    /\ UNCHANGED waiter
    /\ UNCHANGED front

\* mutant: the exception of a worker is swallowed, the stage returns what it has
DraftsRaise_Swallows ==
    /\ pc = At("drafts", 0, "draining")
    /\ \A i \in Variants : futures[i].state # "running"
    /\ drafts' = results
    /\ events' = Append(events,
           Event("drafts", 0, "done", [status |-> "done", drafts |-> results]))
    /\ pc' = At("drafts", 0, "done")
    /\ UNCHANGED <<stub, num_drafts, history, calls, research, judge_result,
                   current_text, critique, user_content, futures, results, collected,
                   openings, error, runs_done, history_before>>
    /\ UNCHANGED <<other, io>>
    /\ UNCHANGED waiter
    /\ UNCHANGED front

\* the executor's __exit__ has waited for every worker: the exception leaves
DraftsRaise ==
    /\ pc = At("drafts", 0, "draining")
    /\ \A i \in Variants : futures[i].state \in {"ok", "failed"}
    /\ pc' = At("drafts", 0, "raised")
    /\ UNCHANGED <<stub, num_drafts, history, events, calls, research, drafts,
                   judge_result, current_text, critique, user_content, futures,
                   results, collected, openings, error, runs_done, history_before>>
    /\ UNCHANGED <<other, io>>
    /\ UNCHANGED waiter
    /\ UNCHANGED front

\* every future was taken: run_parallel_drafts returns, "done" is yielded
DraftsReturn ==
    /\ pc = At("drafts", 0, "calling")
    /\ Len(collected) = num_drafts
    /\ drafts' = results
    /\ collected' = <<>>
    /\ events' = Append(events,
           Event("drafts", 0, "done", [status |-> "done", drafts |-> results]))
    /\ pc' = At("drafts", 0, "done")
    /\ UNCHANGED <<stub, num_drafts, history, calls, research, judge_result,
                   current_text, critique, user_content, futures, results,
                   openings, error, runs_done, history_before>>
    /\ UNCHANGED <<other, io>>
    /\ waiter' = NoWaiter
    /\ UNCHANGED front

\* the judge call returns; drafts[winner_index] raises IndexError outside the list
JudgeReturn ==
    /\ pc = At("judge", 0, "calling")
    /\ \E judgment \in JudgeReplies :
        /\ calls' = Settle("returned", judgment)
        /\ IF WinnerIndex(judgment, num_drafts) \in DOMAIN drafts
           THEN LET verdict == JudgeVerdict(drafts, judgment) IN
                /\ judge_result' = verdict
                /\ events' = Append(events, Event("judge", 0, "done",
                       [status |-> "done", winner_index |-> verdict.winner_index,
                        winner_label |-> verdict.winner_label,
                        winner_text |-> verdict.winner_text,
                        judgment |-> verdict.judgment,
                        borrow_notes |-> verdict.borrow_notes]))
                /\ pc' = At("judge", 0, "done")
                /\ UNCHANGED error
           ELSE /\ error' = <<"IndexError", WinnerIndex(judgment, num_drafts)>>
                /\ pc' = At("judge", 0, "raised")
                /\ UNCHANGED <<judge_result, events>>
    /\ UNCHANGED <<stub, num_drafts, history, research, drafts, current_text,
                   critique, user_content, futures, results, collected, openings,
                   runs_done, history_before>>
    /\ UNCHANGED <<other, io>>
    /\ UNCHANGED waiter
    /\ UNCHANGED front

\* mutant: the stage's output is not made the current text
EnhancementReturn_KeepsText ==
    /\ pc.kind = "enhancement"
    /\ pc.at = "calling"
    /\ LET text == StubText("enhancement", pc.idx, ThisRun) IN
        /\ calls' = Settle("returned", text)
        /\ events' = Append(events, Event("enhancement", pc.idx, "done",
               [status |-> "done", stage_index |-> pc.idx, text |-> text]))
    /\ pc' = At("enhancement", pc.idx, "done")
    /\ UNCHANGED <<stub, num_drafts, history, research, drafts, judge_result,
                   current_text, critique, user_content, futures, results, collected,
                   openings, error, runs_done, history_before>>
    /\ UNCHANGED <<other, io>>
    /\ UNCHANGED waiter
    /\ UNCHANGED front

CritiqueReturn ==
    /\ pc.kind = "critique"
    /\ pc.at = "calling"
    /\ LET text == StubText("critique", pc.idx, ThisRun) IN
        /\ critique' = text
        /\ calls' = Settle("returned", text)
        /\ events' = Append(events,
               Event("critique", pc.idx, "done", [status |-> "done", text |-> text]))
    /\ pc' = At("critique", pc.idx, "done")
    /\ UNCHANGED <<stub, num_drafts, history, research, drafts, judge_result,
                   current_text, user_content, futures, results, collected, openings,
                   error, runs_done, history_before>>
    /\ UNCHANGED <<other, io>>
    /\ UNCHANGED waiter
    /\ UNCHANGED front

\* mutant: the stage's "done" tuple is not yielded
EnhancementReturn_NoDone ==
    /\ pc.kind = "enhancement"
    /\ pc.at = "calling"
    /\ current_text' = StubText("enhancement", pc.idx, ThisRun)
    /\ calls' = Settle("returned", StubText("enhancement", pc.idx, ThisRun))
    /\ pc' = At("enhancement", pc.idx, "done")
    /\ UNCHANGED <<stub, num_drafts, history, events, research, drafts, judge_result,
                   critique, user_content, futures, results, collected, openings,
                   error, runs_done, history_before>>
    /\ UNCHANGED <<other, io>>
    /\ UNCHANGED waiter
    /\ UNCHANGED front

\* mutant: the last stage saves the opening before it yields its done tuple
EnhancementReturn_SavesLast ==
    /\ pc.kind = "enhancement"
    /\ pc.at = "calling"
    /\ LET text == StubText("enhancement", pc.idx, ThisRun) IN
        /\ current_text' = text
        /\ calls' = Settle("returned", text)
        /\ events' = Append(events, Event("enhancement", pc.idx, "done",
               [status |-> "done", stage_index |-> pc.idx, text |-> text]))
        /\ history' = IF pc.idx = NumStages - 1 THEN SavedOpenings(history, text)
                      ELSE history
    /\ pc' = At("enhancement", pc.idx, "done")
    /\ UNCHANGED <<stub, num_drafts, research, drafts, judge_result,
                   critique, user_content, futures, results, collected, openings,
                   error, runs_done, history_before>>
    /\ UNCHANGED <<other, io>>
    /\ UNCHANGED waiter
    /\ UNCHANGED front

\* what the call of stage i may return: the double's text, and under the
\* front end the last stage may also return the empty string
StageReplies(i) ==
    {StubText("enhancement", i, ThisRun)}
        \cup IF app.on /\ i = NumStages - 1 /\ ledger.empties < MaxEmptyReplies
             THEN {<<>>} ELSE {}

EnhancementReturn ==
    /\ pc.kind = "enhancement"
    /\ pc.at = "calling"
    /\ \E text \in StageReplies(pc.idx) :
        /\ current_text' = text
        /\ calls' = Settle("returned", text)
        /\ events' = Append(events, Event("enhancement", pc.idx, "done",
               [status |-> "done", stage_index |-> pc.idx, text |-> text]))
        /\ ledger' = [ledger EXCEPT !.empties = IF text = <<>> THEN @ + 1 ELSE @]
    /\ UNCHANGED <<app, db, today>>
    /\ pc' = At("enhancement", pc.idx, "done")
    /\ UNCHANGED <<stub, num_drafts, history, research, drafts, judge_result,
                   critique, user_content, futures, results, collected, openings,
                   error, runs_done, history_before>>
    /\ UNCHANGED <<other, io>>
    /\ UNCHANGED waiter

\* SaveLoad, reusing the list run_parallel_drafts read
SaveLoad_NoRead ==
    /\ pc.at = "done"
    /\ NextPhase(pc.kind, pc.idx).kind = "save"
    /\ openings' = history_before
    /\ pc' = At("save", 0, "loaded")
    /\ UNCHANGED <<stub, num_drafts, history, events, calls, research, drafts,
                   judge_result, current_text, critique, user_content, futures,
                   results, collected, error, runs_done, history_before>>
    /\ UNCHANGED <<other, io>>
    /\ UNCHANGED waiter
    /\ UNCHANGED front

\* _save_opening, first line: the generator is resumed after the last stage
SaveLoad ==
    /\ pc.at = "done"
    /\ NextPhase(pc.kind, pc.idx).kind = "save"
    /\ openings' = history
    /\ pc' = At("save", 0, "loaded")
    /\ UNCHANGED <<stub, num_drafts, history, events, calls, research, drafts,
                   judge_result, current_text, critique, user_content, futures,
                   results, collected, error, runs_done, history_before>>
    /\ io' = [io EXCEPT !.reads = @ + 1]
    /\ UNCHANGED other
    /\ UNCHANGED waiter
    /\ UNCHANGED front

\* mutant: the tuple is yielded and the file is left for later
SaveWrite_YieldsFirst ==
    /\ pc = At("save", 0, "loaded")
    /\ history' = history
    /\ events' = Append(events,
           Event("done", 0, "none", [final_text |-> current_text]))
    /\ runs_done' = runs_done + 1
    /\ pc' = At("done", 0, "finished")
    /\ UNCHANGED <<stub, num_drafts, calls, research, drafts, judge_result,
                   current_text, critique, user_content, futures, results, collected,
                   openings, error, history_before>>
    /\ io' = [io EXCEPT !.writes = @ + 1]
    /\ other' = [other EXCEPT !.wrote_last = FALSE]
    /\ UNCHANGED waiter
    /\ UNCHANGED front

\* SaveWrite, appending to what the file holds at the moment of the write
SaveWrite_Rereads ==
    /\ pc = At("save", 0, "loaded")
    /\ history' = SavedOpenings(history, current_text)
    /\ events' = Append(events,
           Event("done", 0, "none", [final_text |-> current_text]))
    /\ runs_done' = runs_done + 1
    /\ pc' = At("done", 0, "finished")
    /\ UNCHANGED <<stub, num_drafts, calls, research, drafts, judge_result,
                   current_text, critique, user_content, futures, results, collected,
                   openings, error, history_before>>
    /\ io' = [io EXCEPT !.writes = @ + 1]
    /\ other' = [other EXCEPT !.wrote_last = FALSE]
    /\ UNCHANGED waiter
    /\ UNCHANGED front

\* _save_opening writes the file; the generator yields ("Complete", "done", ...)
SaveWrite ==
    /\ pc = At("save", 0, "loaded")
    /\ history' = SavedOpenings(openings, current_text)
    /\ events' = Append(events,
           Event("done", 0, "none", [final_text |-> current_text]))
    /\ runs_done' = runs_done + 1
    /\ pc' = At("done", 0, "finished")
    /\ UNCHANGED <<stub, num_drafts, calls, research, drafts, judge_result,
                   current_text, critique, user_content, futures, results, collected,
                   openings, error, history_before>>
    /\ io' = [io EXCEPT !.writes = @ + 1]
    /\ other' = [other EXCEPT !.wrote_last = FALSE]
    /\ UNCHANGED waiter
    /\ UNCHANGED front

\* ------------------------------------------------------- the front end
\* st.session_state.steps: the tuples with status "done" and the last one
Steps ==
    Cardinality({j \in DOMAIN events :
                    events[j].status = "done" \/ events[j].kind = "done"})

\* the exception that leaves run_full_pipeline
Raised == calls[CallOf(error[1], error[2])].output

\* the exception was no RuntimeError and left the script
Escaped == app.running /\ pc.at = "raised" /\ Raised.type # "RuntimeError"

\* the loop has taken the last tuple: running is reset and the speech is saved
HandlerDone ==
    /\ app.on
    /\ app.running
    /\ pc = At("done", 0, "finished")
    /\ LET final_text == [set |-> TRUE, text |-> events[Len(events)].data.final_text]
           speech_id == db.next_id
       IN  IF Truthy(final_text)
           THEN /\ db' = [db EXCEPT !.speeches = @ \cup {speech_id}, !.next_id = @ + 1]
                /\ app' = [app EXCEPT !.running = FALSE, !.final_text = final_text,
                                      !.steps = Steps, !.last_speech_id = speech_id]
                /\ ledger' = [ledger EXCEPT !.generated = @ + 1]
           ELSE /\ app' = [app EXCEPT !.running = FALSE, !.final_text = final_text,
                                      !.steps = Steps]
                /\ UNCHANGED <<db, ledger>>
    /\ UNCHANGED <<pipeline, today>>

\* except RuntimeError: the message is recorded, running is reset
HandlerCatch ==
    /\ app.on
    /\ app.running
    /\ pc.at = "raised"
    /\ Raised.type = "RuntimeError"
    /\ app' = [app EXCEPT !.running = FALSE, !.error = Raised.message, !.steps = Steps]
    /\ UNCHANGED <<pipeline, db, today, ledger>>

\* the rerun after the handler: st.error shows the message and clears it
ShowError ==
    /\ app.on
    /\ ~app.running
    /\ app.error # NoError
    /\ app' = [app EXCEPT !.error = NoError, !.shown = app.error]
    /\ UNCHANGED <<pipeline, db, today, ledger>>

\* "Delete this episode" in the library view
DeleteSpeech(speech_id) ==
    /\ app.on
    /\ ~app.running \/ Escaped
    /\ speech_id \in db.speeches
    /\ db' = [db EXCEPT !.speeches = @ \ {speech_id}]
    /\ UNCHANGED <<pipeline, app, today, ledger>>

\* -------------------------------------------------------------- streaks
\* _update_streak: the row the connection holds after its INSERT or UPDATE
update_streak(row, day) ==
    IF ~row.exists
    THEN [exists |-> TRUE, current_streak |-> 1, longest_streak |-> 1,
          last_activity_date |-> day, total_reflections |-> 1]
    ELSE IF row.last_activity_date = day
    THEN [row EXCEPT !.total_reflections = @ + 1]
    ELSE LET new_streak == IF row.last_activity_date = day - 1
                           THEN row.current_streak + 1 ELSE 1
             new_longest == IF row.last_activity_date = day - 1
                               /\ new_streak > row.longest_streak
                            THEN new_streak ELSE row.longest_streak
         IN  [exists |-> TRUE, current_streak |-> new_streak,
              longest_streak |-> new_longest, last_activity_date |-> day,
              total_reflections |-> row.total_reflections + 1]

\* conn.close() with statements executed since the last conn.commit(): the
\* open transaction is rolled back
close(committed, pending) == committed

\* get_user_streak, on a new connection
get_user_streak ==
    IF db.streak.exists
    THEN [current_streak |-> IF db.streak.last_activity_date < today - 1 THEN 0
                             ELSE db.streak.current_streak,
          longest_streak |-> db.streak.longest_streak,
          last_activity_date |-> db.streak.last_activity_date,
          total_reflections |-> db.streak.total_reflections]
    ELSE [current_streak |-> 0, longest_streak |-> 0, last_activity_date |-> 0,
          total_reflections |-> 0]

\* save_reflection: the reflection is inserted and committed, _update_streak
\* runs on the same connection, the connection is closed
SaveReflection ==
    /\ ledger.reflected < MaxReflections
    /\ LET pending == update_streak(db.streak, today)
       IN  db' = [db EXCEPT !.reflections = @ + 1,
                           !.streak = close(db.streak, pending)]
    /\ ledger' = [ledger EXCEPT !.reflected = @ + 1, !.reflected_on = today]
    /\ UNCHANGED <<pipeline, app, today>>

\* midnight UTC
NextDay ==
    /\ today < MaxDays
    /\ today' = today + 1
    /\ UNCHANGED <<pipeline, app, db, ledger>>

Next ==
    \/ Start
    \/ Invoke
    \/ Fail
    \/ ResearchReturn
    \/ Resume
    \/ DraftsSubmit
    \/ AsCompleted
    \/ \E i \in Variants : FutureReturn(i)
    \/ \E i \in Variants : FutureFail(i)
    \/ \E i \in Variants : Collect(i)
    \/ DraftsRaise
    \/ DraftsReturn
    \/ JudgeReturn
    \/ CritiqueReturn
    \/ EnhancementReturn
    \/ SaveLoad
    \/ SaveWrite

Spec == Init /\ [][Next]_vars

\* every generation call comes back, and the caller keeps asking for tuples
CallsEnd ==
    /\ WF_vars(ResearchReturn \/ JudgeReturn \/ CritiqueReturn \/ EnhancementReturn \/ Fail)
    /\ \A i \in 0 .. (MaxDrafts - 1) :
           WF_vars(i \in Variants /\ (FutureReturn(i) \/ FutureFail(i)))

CallerConsumes ==
    WF_vars(\/ Invoke \/ Resume \/ DraftsSubmit \/ AsCompleted \/ DraftsRaise \/ DraftsReturn
            \/ SaveLoad \/ SaveWrite
            \/ \E i \in Variants : Collect(i))

\* scripted judge replies, two or three variants
InitLive ==
    /\ Init
    /\ stub = "scripted"
    /\ num_drafts <= TemplateDrafts

SpecLive == InitLive /\ [][Next]_vars /\ CallsEnd /\ CallerConsumes

\* the text the other session's run ends with
OtherText == StubText("concurrent", NumStages - 1, other.done + 1)

\* _save_opening in the other session, first line
OtherLoad ==
    /\ other.at = "idle"
    /\ other.done < MaxConcurrent
    /\ other' = [other EXCEPT !.at = "loaded", !.openings = history]
    /\ UNCHANGED <<stub, num_drafts, history, pc, events, calls, research, drafts,
                   judge_result, current_text, critique, user_content, futures,
                   results, collected, openings, error, runs_done, history_before, io>>
    /\ UNCHANGED waiter
    /\ UNCHANGED front

\* _save_opening in the other session writes the file
OtherWrite ==
    /\ other.at = "loaded"
    /\ history' = SavedOpenings(other.openings, OtherText)
    /\ other' = [other EXCEPT !.at = "idle", !.done = @ + 1, !.wrote_last = TRUE]
    /\ UNCHANGED <<stub, num_drafts, pc, events, calls, research, drafts,
                   judge_result, current_text, critique, user_content, futures,
                   results, collected, openings, error, runs_done, history_before, io>>
    /\ UNCHANGED waiter
    /\ UNCHANGED front

NextConcurrent ==
    \/ Next
    \/ OtherLoad
    \/ OtherWrite

SpecConcurrent == InitConcurrent /\ [][NextConcurrent]_vars

\* the caller drops the generator while it is suspended at a yield: nothing
\* after that yield is executed
Close ==
    /\ pc.at \in {"running", "done"}
    /\ pc' = At(pc.kind, pc.idx, "closed")
    /\ UNCHANGED <<stub, num_drafts, history, events, calls, research, drafts,
                   judge_result, current_text, critique, user_content, futures,
                   results, collected, openings, error, runs_done, history_before, io>>
    /\ UNCHANGED other
    /\ UNCHANGED waiter
    /\ UNCHANGED front

NextAbandon ==
    \/ Next
    \/ Close

SpecAbandon == InitLive /\ [][NextAbandon]_vars

\* the generate handler of the front end around the generator, and the library
NextApp ==
    \/ Next
    \/ HandlerDone
    \/ HandlerCatch
    \/ ShowError
    \/ \E speech_id \in 1 .. MaxGenerations : DeleteSpeech(speech_id)

SpecApp == InitApp /\ [][NextApp]_vars

NextStreak ==
    \/ SaveReflection
    \/ NextDay

\* reflections saved over the days
InitStreak ==
    /\ Init
    /\ stub = "scripted"
    /\ num_drafts = ShippedDrafts

SpecStreak == InitStreak /\ [][NextStreak]_vars

\* ----------------------------------------------------------------- claims
\* the stream as (kind, idx, status) triples
Stream == [j \in DOMAIN events |-> <<events[j].kind, events[j].idx, events[j].status>>]

RECURSIVE StageTriples(_, _)
StageTriples(i, n) ==
    IF i >= n THEN <<>>
    ELSE << <<"critique", i, "running">>, <<"critique", i, "done">>,
            <<"enhancement", i, "running">>, <<"enhancement", i, "done">> >>
         \o StageTriples(i + 1, n)

\* the sequence of section 4.7 for N stages
SuccessStream(n) ==
    << <<"research", 0, "running">>, <<"research", 0, "done">>,
       <<"drafts", 0, "running">>, <<"drafts", 0, "done">>,
       <<"judge", 0, "running">>, <<"judge", 0, "done">> >>
    \o StageTriples(0, n) \o << <<"done", 0, "none">> >>

IsPrefix(a, b) == Len(a) <= Len(b) /\ a = SubSeq(b, 1, Len(a))

Occurrences(kind, idx, status) ==
    {j \in DOMAIN events :
        events[j].kind = kind /\ events[j].idx = idx /\ events[j].status = status}

PhasesSeen(kinds) ==
    {<<events[j].kind, events[j].idx>> : j \in {k \in DOMAIN events : events[k].kind \in kinds}}

\* one "running" then one "done", or "running" alone for the phase in flight
RunningThenDone(ph) ==
    LET r == Occurrences(ph[1], ph[2], "running")
        d == Occurrences(ph[1], ph[2], "done")
    IN  /\ Cardinality(r) = 1
        /\ Cardinality(d) <= 1
        /\ \A j \in r : \A k \in d : j < k
        /\ d = {} => /\ pc.at # "finished"
                     /\ events[Len(events)].kind = ph[1]
                     /\ events[Len(events)].idx = ph[2]

\* C2 as stated: every phase of the stream, of every kind, "done" included, has
\* one "running" event followed by one "done" event (or "running" alone when
\* the run failed in it).
C2_AllKindsRunningThenDone ==
    \A ph \in PhasesSeen({"research", "drafts", "judge", "critique", "enhancement", "done"}) :
        RunningThenDone(ph)

\* C2 amended: every phase of kind research, drafts, judge, critique or
\* enhancement has exactly one "running" event, followed by at most one "done"
\* event, which is missing only for the last phase of a run that has not
\* ended successfully; the phase of kind "done" is one event that carries no
\* status, yielded only as the last event of a successful run.
C2_RunningThenDone ==
    /\ \A ph \in PhasesSeen({"research", "drafts", "judge", "critique", "enhancement"}) :
           RunningThenDone(ph)
    /\ \A j \in DOMAIN events :
           events[j].kind = "done" =>
               /\ events[j].status = "none"
               /\ j = Len(events)
               /\ pc.at = "finished"
    /\ pc.at = "finished" => Cardinality({j \in DOMAIN events : events[j].kind = "done"}) = 1

C2_Witness ==
    /\ pc.at = "raised"
    /\ pc.kind = "enhancement"
    /\ pc.idx = 1
    /\ Occurrences("enhancement", 1, "running") # {}
    /\ Occurrences("enhancement", 1, "done") = {}
    /\ Occurrences("critique", 1, "done") # {}

\* the calls of the log made for (kind, idx)

\* C3: whatever the order in which the K draft calls complete and are taken,
\* every result stored is stored at its variant's index with that variant's
\* label and the text its own call returned, and run_parallel_drafts returns
\* exactly K such results.
C3_DraftOrder ==
    /\ \A j \in DOMAIN collected :
           futures[collected[j]].state = "ok" =>
               /\ results[collected[j]].label = <<"Draft", collected[j]>>
               /\ \E c \in CallsOf("drafts", collected[j]) :
                      /\ calls[c].status = "returned"
                      /\ results[collected[j]].text = calls[c].output
    /\ drafts # <<>> =>
           /\ DOMAIN drafts = 0 .. num_drafts - 1
           /\ \A i \in DOMAIN drafts :
                  /\ drafts[i].label = <<"Draft", i>>
                  /\ \E c \in CallsOf("drafts", i) :
                         /\ calls[c].status = "returned"
                         /\ drafts[i].text = calls[c].output

\* every draft taken, the last variant's first
C3_Witness ==
    /\ num_drafts = 3
    /\ pc = At("drafts", 0, "calling")
    /\ collected = <<2, 0, 1>>
    /\ \A i \in 0 .. 2 : results[i].label = <<"Draft", i>>

\* some position p holds WINNER:, then whitespace only, then one of the first
\* n (at most three) letters, in either case
HasWinnerLine(judgment, n) ==
    \E p \in DOMAIN judgment : \E q \in DOMAIN judgment :
        /\ p < q
        /\ judgment[p] = "WINNER:"
        /\ \A r \in (p + 1) .. (q - 1) : judgment[r] = " "
        /\ \/ judgment[q] \in {"A", "a", "B", "b"}
           \/ n >= 3 /\ judgment[q] \in {"C", "c"}

C5_EnhancementInputs ==
    \A j \in DOMAIN calls :
        calls[j].kind = "enhancement" =>
            /\ \E k \in CallsOf("critique", calls[j].idx) :
                   /\ k < j
                   /\ calls[k].status = "returned"
                   /\ calls[j].input.critique = calls[k].output
            /\ \E k \in CallsOf("research", 0) :
                   /\ calls[k].status = "returned"
                   /\ calls[j].input.research = calls[k].output

C5_Witness ==
    /\ pc = At("enhancement", 2, "calling")
    /\ \E j \in CallsOf("enhancement", 2) :
           /\ calls[j].input.critique = StubText("critique", 2, ThisRun)
           /\ calls[j].input.critique # StubText("critique", 1, ThisRun)
           /\ calls[j].input.research = StubText("research", 0, ThisRun)

\* the opening the k-th successful run saves: the first 300 characters of its
\* last stage's output, stripped
OpeningOfRun(k) == Strip(Slice(StubText("enhancement", NumStages - 1, k), 300))

Min(a, b) == IF a <= b THEN a ELSE b

\* C6: after n successful runs from an empty history the file holds min(n, 20)
\* entries, the openings of runs n - min(n, 20) + 1 .. n in run order.
C6_HistoryFifo ==
    /\ Len(history) = Min(runs_done, 20)
    /\ \A j \in DOMAIN history :
           history[j] = OpeningOfRun(runs_done - Min(runs_done, 20) + j)

\* 25 runs: the entries are those of runs 6..25
C6_Witness ==
    /\ runs_done = 25
    /\ Len(history) = 20
    /\ history[1] = OpeningOfRun(6)
    /\ history[20] = OpeningOfRun(25)
    /\ history[1] # history[20]

\* the phase a generation call belongs to
PhaseOfCall(c) == IF c.kind = "drafts" THEN <<"drafts", 0>> ELSE <<c.kind, c.idx>>

\* C7: from the moment a generation call has failed, the last event of the
\* stream is the "running" event of that call's phase (so no "done" for it and
\* no event of a later phase), and the history file is as it was when the run
\* started.
C7_FailureEndsStream ==
    \A j \in DOMAIN calls :
        calls[j].status = "failed" =>
            /\ events # <<>>
            /\ Stream[Len(events)] =
                   <<PhaseOfCall(calls[j])[1], PhaseOfCall(calls[j])[2], "running">>
            /\ IsPrefix(Stream, SuccessStream(NumStages))
            /\ pc.at \in {"submitted", "calling", "draining", "raised"}
            /\ history = history_before

\* a failure in the third stage of a run that follows a saved one
C7_Witness ==
    /\ pc = At("enhancement", 2, "raised")
    /\ error = <<"enhancement", 2>>
    /\ history # <<>>
    /\ Len(events) = 17

\* C8: when the call of exactly one draft variant has failed and no other has,
\* the stream is research(running), research(done), drafts(running), the run
\* never leaves the drafts stage otherwise than by raising, and the error
\* raised is that variant's.
C8_DraftFailFast ==
    \A i \in Variants :
        (/\ futures[i].state = "failed"
         /\ \A k \in Variants \ {i} : futures[k].state # "failed")
        => /\ Stream = << <<"research", 0, "running">>, <<"research", 0, "done">>,
                          <<"drafts", 0, "running">> >>
           /\ pc.kind = "drafts"
           /\ pc.at \in {"submitted", "calling", "draining", "raised"}
           /\ pc.at = "raised" => error = <<"drafts", i>>

\* variant 2 failed, the others returned, the error has left the generator
C8_Witness ==
    /\ num_drafts = 3
    /\ pc = At("drafts", 0, "raised")
    /\ futures[2].state = "failed"
    /\ futures[0].state = "ok"
    /\ futures[1].state = "ok"
    /\ error = <<"drafts", 2>>

Pending(kinds) == {j \in DOMAIN calls : calls[j].kind \in kinds /\ calls[j].status = "pending"}

\* C9: an enhancement call of stage i is in the log only after a critique call
\* of stage i that has returned, a critique call of stage i+1 only after an
\* enhancement call of stage i that has returned, and at most one critique or
\* enhancement call is pending.
C9_StagesSequential ==
    /\ \A j \in DOMAIN calls :
           calls[j].kind = "enhancement" =>
               \E k \in CallsOf("critique", calls[j].idx) :
                   k < j /\ calls[k].status = "returned"
    /\ \A j \in DOMAIN calls :
           (calls[j].kind = "critique" /\ calls[j].idx > 0) =>
               \E k \in CallsOf("enhancement", calls[j].idx - 1) :
                   k < j /\ calls[k].status = "returned"
    /\ Cardinality(Pending({"critique", "enhancement"})) <= 1

C9_Witness ==
    /\ pc = At("critique", 3, "calling")
    /\ Cardinality(Pending({"critique", "enhancement"})) = 1
    /\ \E k \in CallsOf("enhancement", 2) : calls[k].status = "returned"

\* C10: critique 0 and enhancement 0 are given the judge's winner text as the
\* current text; critique i and enhancement i, i >= 1, the output of
\* enhancement i-1; the final_text of the done event is the output of
\* enhancement N-1.
C10_CurrentTextChain ==
    /\ \A j \in DOMAIN calls :
           calls[j].kind \in {"critique", "enhancement"} =>
               LET given == IF calls[j].kind = "critique" THEN calls[j].input.text
                            ELSE calls[j].input.previous_output
               IN  IF calls[j].idx = 0
                   THEN /\ given = judge_result.winner_text
                        /\ given = drafts[judge_result.winner_index].text
                   ELSE \E k \in CallsOf("enhancement", calls[j].idx - 1) :
                            /\ k < j
                            /\ calls[k].status = "returned"
                            /\ given = calls[k].output
    /\ \A j \in DOMAIN events :
           events[j].kind = "done" =>
               \E k \in CallsOf("enhancement", NumStages - 1) :
                   /\ calls[k].status = "returned"
                   /\ events[j].data.final_text = calls[k].output

\* a finished run whose judge chose the second draft
C10_Witness ==
    /\ pc.at = "finished"
    /\ judge_result.winner_index = 1
    /\ \E j \in CallsOf("critique", 0) : calls[j].input.text = drafts[1].text
    /\ events[Len(events)].data.final_text = StubText("enhancement", NumStages - 1, runs_done)

\* C11: once run_parallel_drafts has returned or raised, every one of the K
\* calls it submitted has returned or failed: none is pending, none was
\* cancelled, also when the failure of one branch was taken while others ran.
C11_DrainsBeforeResolving ==
    (\/ pc.kind \notin {"idle", "research", "drafts"}
     \/ pc.kind = "drafts" /\ pc.at \in {"done", "raised"})
    => /\ \A i \in Variants : futures[i].state \in {"ok", "failed"}
       /\ \A i \in Variants :
              /\ Cardinality(CallsOf("drafts", i)) = 1
              /\ \A j \in CallsOf("drafts", i) : calls[j].status \in {"returned", "failed"}

\* the failure of variant 2 was taken while variant 0 is still running: the
\* exception waits
C11_Witness ==
    /\ num_drafts = 3
    /\ pc = At("drafts", 0, "draining")
    /\ futures[2].state = "failed"
    /\ futures[1].state = "ok"
    /\ futures[0].state = "running"
    /\ error = <<"drafts", 2>>

\* the opening the other session's k-th run saves
OtherOpening(k) == Strip(Slice(StubText("concurrent", NumStages - 1, k), 300))

\* C12: no lock or version check orders the two sessions' read-modify-writes:
\* the file is always exactly what its last writer computed from its own
\* earlier read, so when both sessions read before either wrote, the opening
\* of the one that wrote first is gone after both have completed.
C12_LostUpdate ==
    /\ (pc = At("done", 0, "finished") /\ ~other.wrote_last)
           => history = SavedOpenings(openings, current_text)
    /\ (other.at = "idle" /\ other.done > 0 /\ other.wrote_last)
           => history = SavedOpenings(other.openings,
                                      StubText("concurrent", NumStages - 1, other.done))
    /\ (/\ pc = At("done", 0, "finished")
        /\ ~other.wrote_last
        /\ other.at = "idle"
        /\ other.done > 0
        /\ \A n \in DOMAIN openings : openings[n] # OtherOpening(other.done))
           => \A n \in DOMAIN history : history[n] # OtherOpening(other.done)

C12_Witness ==
    /\ pc = At("done", 0, "finished")
    /\ runs_done = 1
    /\ other.at = "idle"
    /\ other.done = 1
    /\ ~other.wrote_last
    /\ history = << OpeningOfRun(1) >>

\* the statement as written: one read and one write in a successful run
C13_ReadOnceWriteOnce ==
    /\ pc = At("done", 0, "finished") => io = [reads |-> 1, writes |-> 1]
    /\ pc.at = "raised" => io.writes = 0

\* C13: a successful run reads the store twice, in run_parallel_drafts after
\* the research stage and in _save_opening right before its one write, which
\* is the run's last step; a failed run writes nothing and has read the store
\* once, or not at all when the research call failed.
C13_StoreAccess ==
    /\ pc = At("done", 0, "finished") => io = [reads |-> 2, writes |-> 1]
    /\ pc.at = "raised" =>
           /\ io.writes = 0
           /\ io.reads = IF pc.kind = "research" THEN 0 ELSE 1
           /\ history = history_before
    /\ io.reads = 0 <=> (pc.kind \in {"idle", "research"} \/ pc = At("drafts", 0, "running"))
    /\ io.reads = 2 <=> pc.kind \in {"save", "done"}
    /\ io.writes = 1 <=> pc = At("done", 0, "finished")
    /\ io.reads \in 0 .. 2 /\ io.writes \in 0 .. 1
    /\ (io.writes = 0 /\ pc.kind # "idle") => history = history_before

C13_Witness ==
    /\ pc = At("done", 0, "finished")
    /\ runs_done = 2
    /\ io = [reads |-> 2, writes |-> 1]
    /\ Len(history) = 2

\* generation calls of a run that gets through the phase (kind, idx)
CallsThrough(kind, idx) ==
    CASE kind = "research" -> 1
      [] kind = "drafts" -> 1 + num_drafts
      [] kind = "judge" -> 1 + num_drafts + 1
      [] kind = "critique" -> 1 + num_drafts + 1 + 2 * idx + 1
      [] kind = "enhancement" -> 1 + num_drafts + 1 + 2 * idx + 2

AllCalls == 1 + num_drafts + 1 + 2 * NumStages

NoCallTwice ==
    \A j, k \in DOMAIN calls :
        (calls[j].kind = calls[k].kind /\ calls[j].idx = calls[k].idx) => j = k

\* the statement as written: a failed run has made fewer calls than a successful one
C14_FailedRunFewerCalls ==
    /\ NoCallTwice
    /\ Len(calls) <= AllCalls
    /\ pc.at = "raised" => Len(calls) < AllCalls

\* C14: no call is issued twice in a run and no call is issued once a call has
\* failed: a run makes at most 1 + K + 1 + 2N calls, a successful run exactly
\* that many, and a failed run exactly those up to and including the failing
\* phase, which is fewer unless the failing call is the last enhancement call.
C14_NoRetry ==
    /\ NoCallTwice
    /\ Len(calls) <= AllCalls
    /\ pc = At("done", 0, "finished") => Len(calls) = AllCalls
    /\ \A j \in DOMAIN calls :
           calls[j].status = "failed" =>
               Len(calls) = CallsThrough(calls[j].kind, calls[j].idx)
    /\ pc.at = "raised" =>
           /\ \E j \in DOMAIN calls : calls[j].status = "failed"
           /\ Len(calls) = CallsThrough(error[1], error[2])
           /\ Len(calls) = AllCalls <=> error = <<"enhancement", NumStages - 1>>

C14_Witness ==
    /\ pc = At("enhancement", NumStages - 1, "raised")
    /\ num_drafts = 3
    /\ Len(calls) = AllCalls
    /\ calls[Len(calls)].status = "failed"

\* C15: whenever a run has ended by an exception of a generation call, the
\* exception its caller gets is a RuntimeError with a message; no exception
\* of another type leaves the run.
C15_OnlyRuntimeError ==
    pc.at = "raised" =>
        /\ Raised.type = "RuntimeError"
        /\ Raised.message # <<>>

\* C16: each of the K draft calls gets the same user content; when the file
\* held entries at the draft stage the content begins with the prefix that
\* renders its last min(5, len) entries in stored order, and when the file
\* was empty there is no prefix.
C16_DraftPrefix ==
    \A i \in Variants : \A j \in CallsOf("drafts", i) :
        LET h == history_before
            m == Min(5, Len(h))
        IN  /\ calls[j].input = user_content
            /\ \A k \in CallsOf("drafts", 0) : calls[j].input = calls[k].input
            /\ calls[j].input.prefix.present <=> h # <<>>
            /\ calls[j].input.prefix.previous_openings =
                   [n \in 1 .. m |-> h[Len(h) - m + n]]

C16_Witness ==
    /\ pc = At("drafts", 0, "calling")
    /\ num_drafts = 2
    /\ Len(history_before) = 7
    /\ \A i \in Variants : CallsOf("drafts", i) # {}
    /\ user_content.prefix.previous_openings =
           << OpeningOfRun(3), OpeningOfRun(4), OpeningOfRun(5), OpeningOfRun(6),
              OpeningOfRun(7) >>

\* len(text)
RECURSIVE TextLen(_)
TextLen(t) == IF t = <<>> THEN 0 ELSE Head(t).n + TextLen(Tail(t))

\* text[p - 1]
RECURSIVE CharAt(_, _)
CharAt(t, p) == IF p <= Head(t).n THEN Head(t).ch ELSE CharAt(Tail(t), p - Head(t).n)

\* entry is the part of the first 300 characters of text between its first
\* and its last character that is not whitespace
DerivedFrom(entry, text) ==
    LET m == Min(300, TextLen(text))
        inked == {q \in 1 .. m : CharAt(text, q) # WS}
    IN  IF inked = {} THEN TextLen(entry) = 0
        ELSE LET a == CHOOSE q \in inked : \A r \in inked : q <= r
                 b == CHOOSE q \in inked : \A r \in inked : q >= r
             IN  /\ TextLen(entry) = b - a + 1
                 /\ \A q \in 1 .. (b - a + 1) : CharAt(entry, q) = CharAt(text, a + q - 1)

\* C17: after a successful run the last entry of the file is the first 300
\* characters of the run's final text without the whitespace at their two
\* ends, every entry has at most 300 characters, and the entries before it
\* are those the file held before the run, in their order, without the
\* oldest one when there were 20.
C17_SavedOpening ==
    /\ \A n \in DOMAIN history : TextLen(history[n]) <= 300
    /\ pc = At("done", 0, "finished") =>
           /\ history # <<>>
           /\ DerivedFrom(history[Len(history)], current_text)
           /\ LET d == IF Len(history_before) = 20 THEN 1 ELSE 0
              IN  /\ Len(history) = Len(history_before) + 1 - d
                  /\ \A n \in 1 .. (Len(history) - 1) : history[n] = history_before[n + d]

C17_Witness ==
    /\ pc = At("done", 0, "finished")
    /\ runs_done = 21
    /\ Len(history_before) = 20
    /\ CharAt(current_text, 1) = WS
    /\ TextLen(current_text) > 300
    /\ TextLen(history[20]) = 298

DoneEvents == {j \in DOMAIN events : events[j].kind = "done"}

\* C18: a run yields the done tuple at most once, as its last tuple, right
\* after the done tuple of the last enhancement stage and with the final text;
\* a run that has yielded it has raised nothing, and a run that has raised has
\* not yielded it and yields nothing more.
C18_DoneOnceLast ==
    /\ Cardinality(DoneEvents) <= 1
    /\ \A j \in DoneEvents :
           /\ j = Len(events)
           /\ j > 1
           /\ events[j - 1].kind = "enhancement"
           /\ events[j - 1].idx = NumStages - 1
           /\ events[j - 1].status = "done"
           /\ events[j].data = [final_text |-> current_text]
    /\ DoneEvents # {} <=> pc = At("done", 0, "finished")
    /\ pc = At("done", 0, "finished") =>
           /\ error = NoError
           /\ \A j \in DOMAIN calls : calls[j].status = "returned"
    /\ pc.at = "raised" =>
           /\ DoneEvents = {}
           /\ error # NoError
           /\ calls[CallOf(error[1], error[2])].status = "failed"
           /\ events[Len(events)].status = "running"
           /\ events[Len(events)].kind = error[1]

C18_Witness ==
    /\ pc = At("done", 0, "finished")
    /\ runs_done = 2
    /\ Len(events) = 2 * (3 + 2 * NumStages) + 1
    /\ DoneEvents = {Len(events)}

\* the draft texts a judge prompt shows, under DRAFT A, DRAFT B, DRAFT C
Embedded(input) ==
    IF input.template = "user_template_2" THEN << input.draft_a, input.draft_b >>
    ELSE << input.draft_a, input.draft_b, input.draft_c >>

\* A = 0, B = 1, C = 2
LetterIndex(tok) ==
    CASE tok \in {"A", "a"} -> 0
      [] tok \in {"B", "b"} -> 1
      [] tok \in {"C", "c"} -> 2
      [] OTHER -> 3

\* the places p, q of a reply where WINNER: at p is followed, after whitespace
\* only, by one of the first n letters at q
WinnerLines(judgment, n) ==
    {pq \in (DOMAIN judgment) \X (DOMAIN judgment) :
        /\ pq[1] < pq[2]
        /\ judgment[pq[1]] = "WINNER:"
        /\ \A r \in (pq[1] + 1) .. (pq[2] - 1) : judgment[r] = " "
        /\ LetterIndex(judgment[pq[2]]) < n}

\* the letter of the first such place names the draft of that position
NamedWins(data, n) ==
    \A pq \in WinnerLines(data.judgment, n) :
        (\A rs \in WinnerLines(data.judgment, n) : pq[1] <= rs[1])
            => data.winner_index = LetterIndex(data.judgment[pq[2]])

OneJudgeCall ==
    /\ Cardinality(CallsOf("judge", 0)) <= 1
    /\ (pc.kind = "judge" /\ pc.at # "running") => Cardinality(CallsOf("judge", 0)) = 1
    /\ Occurrences("judge", 0, "done") # {} => Cardinality(CallsOf("judge", 0)) = 1

\* the statement as written: for every number of drafts
C19_JudgeEmbedsAllDrafts ==
    /\ OneJudgeCall
    /\ \A j \in CallsOf("judge", 0) :
           /\ Len(Embedded(calls[j].input)) = num_drafts
           /\ \A i \in Variants : Embedded(calls[j].input)[i + 1] = drafts[i].text
    /\ \A j \in Occurrences("judge", 0, "done") : NamedWins(events[j].data, num_drafts)

\* C19: run_judge issues exactly one generation call. With two or three
\* drafts its prompt shows all of them under DRAFT A, DRAFT B, DRAFT C in
\* draft order, and a reply whose first WINNER: line names the j-th letter,
\* j below the number of drafts, gives winner_index j. With more than three
\* drafts the prompt shows the first three only, and only A, B and C are
\* read as winners.
C19_JudgeCall ==
    /\ OneJudgeCall
    /\ \A j \in CallsOf("judge", 0) :
           LET shown == Embedded(calls[j].input)
           IN  /\ Len(shown) = Min(num_drafts, 3)
               /\ \A i \in 0 .. (Len(shown) - 1) : shown[i + 1] = drafts[i].text
               /\ calls[j].input.template = "user_template_2" <=> num_drafts = 2
    /\ \A j \in Occurrences("judge", 0, "done") :
           NamedWins(events[j].data, Min(num_drafts, 3))

C19_Witness ==
    /\ pc = At("judge", 0, "done")
    /\ num_drafts = 3
    /\ judge_result.judgment = <<"WINNER:", " ", "c">>
    /\ judge_result.winner_index = 2
    /\ Embedded(calls[Len(calls)].input) = << drafts[0].text, drafts[1].text, drafts[2].text >>

\* the names of the enhancement stages, in order
EnhancementNames ==
    << "Stage 2: Deep Enhancement", "Stage 3: De-AI & Voice Authenticity",
       "Stage 4: Oral Delivery Optimization", "Stage 5: Final Polish" >>

\* the critique call of every stage i names first, as the completed stage and
\* next as the stage to come
CritiqueNames(first) ==
    \A j \in DOMAIN calls :
        calls[j].kind = "critique" =>
            LET i == calls[j].idx
            IN  /\ i \in 0 .. (NumStages - 1)
                /\ calls[j].input.completed_stage =
                       IF i = 0 THEN first ELSE EnhancementNames[i]
                /\ calls[j].input.next_stage = EnhancementNames[i + 1]

\* the statement as written: "Judge" is named before the first stage
C20_CritiqueAfterJudge == CritiqueNames("Judge")

\* C20: the critique call of stage i is given, as the completed stage,
\* "Draft Selection (Judge)" when i = 0 and the name of enhancement stage
\* i - 1 otherwise, and as the next stage the name of enhancement stage i.
C20_CritiqueStageNames == CritiqueNames("Draft Selection (Judge)")

C20_Witness ==
    /\ pc = At("critique", NumStages - 1, "calling")
    /\ calls[Len(calls)].input.completed_stage = "Stage 4: Oral Delivery Optimization"
    /\ calls[Len(calls)].input.next_stage = "Stage 5: Final Polish"
    /\ \E j \in DOMAIN calls :
           /\ calls[j].kind = "critique"
           /\ calls[j].idx = 0
           /\ calls[j].input.completed_stage = "Draft Selection (Judge)"

InFlight == {i \in Variants : futures[i].state = "running"}

FanOutStarted == pc.kind = "drafts" /\ pc.at # "running"

\* C21: the fan-out submits one generation call per variant, each gets a
\* worker at once: no draft call ever waits in the pool's queue, whatever the
\* other draft calls do, and right after the submissions all K are in flight.
C21_AllDraftsInFlight ==
    FanOutStarted =>
        /\ \A i \in Variants : Cardinality(CallsOf("drafts", i)) = 1
        /\ Cardinality({j \in DOMAIN calls : calls[j].kind = "drafts"}) = num_drafts
        /\ \A i \in Variants : futures[i].state # "queued"
        /\ \A i \in Variants :
               futures[i].state = "running" <=> calls[CallOf("drafts", i)].status = "pending"
        /\ Cardinality(InFlight) <= PoolSize
        /\ (\A i \in Variants : calls[CallOf("drafts", i)].status = "pending")
               => InFlight = Variants

C21_Witness ==
    /\ pc = At("drafts", 0, "calling")
    /\ num_drafts = 4
    /\ InFlight = 0 .. 3
    /\ collected = <<>>

LastStageDone == Occurrences("enhancement", NumStages - 1, "done")

\* C22: the file is written in the step between the done tuple of the last
\* enhancement stage and the done tuple of the run: while the former is the
\* last tuple the file is as the run found it, and once the latter has been
\* yielded the last entry of the file is the opening of the final text.
C22_SavedBeforeDone ==
    /\ io.writes = 1 => LastStageDone # {}
    /\ (LastStageDone # {} /\ DoneEvents = {}) =>
           /\ io.writes = 0
           /\ history = history_before
    /\ DoneEvents # {} =>
           /\ io.writes = 1
           /\ history # <<>>
           /\ history[Len(history)] = Strip(Slice(current_text, 300))
           /\ \A j \in DoneEvents :
                  history[Len(history)] = Strip(Slice(events[j].data.final_text, 300))

C22_Witness ==
    /\ pc = At("done", 0, "finished")
    /\ runs_done = 3
    /\ DoneEvents # {}
    /\ history = << OpeningOfRun(1), OpeningOfRun(2), OpeningOfRun(3) >>

\* the calls of the phase (kind, idx)
PhaseCalls(log, kind, idx) ==
    {j \in DOMAIN log : log[j].kind = kind /\ (kind = "drafts" \/ log[j].idx = idx)}

\* a step leaves a phase, or yields its done tuple, only with the phase's
\* calls ended: nothing but the end of the call moves a waiting run
WaitsForCalls ==
    /\ (pc.at = "calling" /\ pc.kind \in SequentialKinds /\ pc' # pc) =>
           /\ Len(calls') = Len(calls)
           /\ calls[Len(calls)].status = "pending"
           /\ calls'[Len(calls)].status \in {"returned", "failed"}
    /\ (pc.kind = "drafts" /\ pc.at \in {"calling", "draining"}
            /\ pc'.at \in {"done", "raised"}) =>
           \A i \in Variants : futures[i].state \in {"ok", "failed"}
    /\ (Len(events') = Len(events) + 1 /\ events'[Len(events')].status = "done") =>
           LET e == events'[Len(events')]
           IN  /\ PhaseCalls(calls', e.kind, e.idx) # {}
               /\ \A j \in PhaseCalls(calls', e.kind, e.idx) : calls'[j].status = "returned"
    /\ UNCHANGED front

\* C23: when every generation call returns or fails and the caller keeps
\* consuming, every run that has started ends, with the done tuple or with an
\* exception; and no step takes a run out of a phase whose call has not
\* ended, so a call that never returns keeps the run in its phase.
C23_TerminatesIfCallsEnd ==
    /\ (~Finished) ~> Finished
    /\ [][WaitsForCalls]_vars

C23_Witness ==
    /\ pc = At("critique", 2, "calling")
    /\ runs_done = 1
    /\ calls[Len(calls)].status = "pending"
    /\ Occurrences("critique", 2, "done") = {}

\* C24: in every verdict of run_judge the winner's label and text are those
\* of the draft at winner_index, which is the first draft when the reply
\* holds no WINNER: <letter> match, and judgment is the reply as the judge
\* call returned it.
C24_VerdictConsistent ==
    \A j \in Occurrences("judge", 0, "done") :
        LET v == events[j].data
        IN  /\ v.winner_index \in Variants
            /\ v.winner_label = drafts[v.winner_index].label
            /\ v.winner_label = VariantLabel(v.winner_index)
            /\ v.winner_text = drafts[v.winner_index].text
            /\ v.winner_text = calls[CallOf("drafts", v.winner_index)].output
            /\ v.judgment = calls[CallOf("judge", 0)].output
            /\ WinnerLines(v.judgment, Min(num_drafts, 3)) = {} =>
                   /\ v.winner_index = 0
                   /\ v.winner_text = drafts[0].text
            /\ judge_result.winner_index = v.winner_index
            /\ judge_result.winner_label = v.winner_label
            /\ judge_result.winner_text = v.winner_text
            /\ judge_result.judgment = v.judgment

C24_Witness ==
    /\ pc = At("judge", 0, "done")
    /\ stub = "enumerated"
    /\ num_drafts = 3
    /\ judge_result.judgment = <<"WINNER:", "x", "B">>
    /\ judge_result.winner_index = 0
    /\ judge_result.winner_label = VariantLabel(0)

FanOutFailed == pc.kind = "drafts" /\ pc.at \in {"draining", "raised"}

FailedBranches == {i \in Variants : futures[i].state = "failed"}

\* one exception leaves the fan-out, and nothing else of it is kept
OneErrorRestDiscarded ==
    /\ error[1] = "drafts"
    /\ error[2] \in FailedBranches
    /\ collected # <<>>
    /\ collected[Len(collected)] = error[2]
    /\ \A j \in 1 .. (Len(collected) - 1) : futures[collected[j]].state = "ok"
    /\ drafts = <<>>
    /\ Occurrences("drafts", 0, "done") = {}
    /\ \A j \in DOMAIN calls : calls[j].kind \in {"research", "drafts"}
    /\ \A i \in FailedBranches \ {error[2]} : calls[CallOf("drafts", i)].output = <<>>

\* the statement as written: the branch that failed first is the one raised
C25_FirstCompletedRaised ==
    FanOutFailed =>
        /\ OneErrorRestDiscarded
        /\ error[2] = waiter.first_failed

\* C25: when branches of a fan-out fail, run_parallel_drafts raises one
\* error, that of the first failed future as_completed yields, and keeps
\* nothing of the other branches. It is the branch that failed first, unless
\* both it and the branch that failed first had failed before as_completed
\* was entered, which yields such futures in no given order.
C25_FirstYieldedRaised ==
    FanOutFailed =>
        /\ OneErrorRestDiscarded
        /\ \/ error[2] = waiter.first_failed
           \/ {error[2], waiter.first_failed} \subseteq waiter.early_failed

C25_Witness ==
    /\ pc = At("drafts", 0, "raised")
    /\ num_drafts = 3
    /\ futures[0].state = "ok"
    /\ FailedBranches = {1, 2}
    /\ waiter.first_failed = 2
    /\ waiter.early_failed = {}
    /\ error = <<"drafts", 2>>
    /\ collected = <<2>>

\* the text stage i works on: the winning draft, then each stage's output
TextBefore(i) ==
    IF i = 0 THEN calls[CallOf("drafts", judge_result.winner_index)].output
    ELSE calls[CallOf("enhancement", i - 1)].output

\* C26: the borrow notes of the verdict go into the judge's done tuple and
\* nowhere else: every critique and enhancement input is made of the topic,
\* the stage names, the research brief, the critique and the text of the
\* winning draft or of the stage before, whatever the notes are.
C26_BorrowNotesUnused ==
    /\ \A j \in Occurrences("judge", 0, "done") :
           events[j].data.borrow_notes = judge_result.borrow_notes
    /\ \A j \in DOMAIN calls :
           /\ calls[j].kind = "critique" =>
                  calls[j].input =
                      [topic |-> "topic", text |-> TextBefore(calls[j].idx),
                       completed_stage |-> IF calls[j].idx = 0 THEN "Draft Selection (Judge)"
                                           ELSE EnhancementNames[calls[j].idx],
                       next_stage |-> EnhancementNames[calls[j].idx + 1]]
           /\ calls[j].kind = "enhancement" =>
                  calls[j].input =
                      [stage_index |-> calls[j].idx, topic |-> "topic",
                       research |-> calls[CallOf("research", 0)].output,
                       critique |-> calls[CallOf("critique", calls[j].idx)].output,
                       previous_output |-> TextBefore(calls[j].idx)]

C26_Witness ==
    /\ pc = At("enhancement", NumStages - 1, "calling")
    /\ judge_result.borrow_notes = <<"x">>
    /\ judge_result.winner_index = 1
    /\ Cardinality({j \in DOMAIN calls : calls[j].kind \in {"critique", "enhancement"}})
           = 2 * NumStages

\* all the generation calls of a run were made and returned
AllCallsSucceeded ==
    /\ Len(calls) = CallsThrough("enhancement", NumStages - 1)
    /\ \A j \in DOMAIN calls : calls[j].status = "returned"

\* C27: the opening is appended only in the resumption that follows the done
\* tuple of the last stage: the file differs from what the run found only
\* once the run's done tuple was yielded, and a run dropped at any tuple up to
\* and including that of the last stage leaves the file as it was, even with
\* every generation call made and returned.
C27_SaveOnlyOnResume ==
    /\ pc.at = "closed" => (history = history_before /\ io.writes = 0)
    /\ (pc.kind # "idle" /\ history # history_before) =>
           /\ pc = At("done", 0, "finished")
           /\ Stream[Len(events)] = <<"done", 0, "none">>
           /\ Stream[Len(events) - 1] = <<"enhancement", NumStages - 1, "done">>
    /\ pc = At("save", 0, "loaded") => LastStageDone # {}

C27_Witness ==
    /\ pc = At("enhancement", NumStages - 1, "closed")
    /\ AllCallsSucceeded
    /\ runs_done = 1
    /\ history = history_before
    /\ history = << OpeningOfRun(1) >>
    /\ current_text = StubText("enhancement", NumStages - 1, 2)

\* C28: a user who is not on the free-access list and has no active
\* subscription starts a generation only while fewer than FREE_EPISODE_LIMIT
\* speeches count against them, and whatever they generate and delete, they
\* never get more than FREE_EPISODE_LIMIT speeches generated and saved.
C28_AtMostLimitGenerations ==
    app.user = "free" =>
        /\ (app.running /\ ~Escaped) => count_user_speeches < FREE_EPISODE_LIMIT
        /\ ledger.generated <= FREE_EPISODE_LIMIT

\* C29: once save_reflection has returned, the streak row a new connection
\* reads counts every reflection saved so far, carries the day of the last
\* one as last_activity_date, and has longest_streak >= current_streak >= 1.
C29_StreakDurable ==
    ledger.reflected > 0 =>
        /\ db.reflections = ledger.reflected
        /\ db.streak.exists
        /\ get_user_streak.total_reflections = ledger.reflected
        /\ get_user_streak.last_activity_date = ledger.reflected_on
        /\ db.streak.longest_streak >= db.streak.current_streak
        /\ db.streak.current_streak >= 1

\* the generate handler has run to its end
HandlerOver == app.on /\ ~app.running /\ pc.kind # "idle"

\* the handler caught the RuntimeError of the run
Caught == HandlerOver /\ pc.at = "raised"

\* the message is in session_state.error, or st.error has shown it
ErrorRecorded ==
    \/ app.error = Raised.message /\ app.shown = NoError
    \/ app.error = NoError /\ app.shown = Raised.message

\* the statement as written: a speech is saved exactly when the done tuple came
C30_SavedIffDone ==
    /\ HandlerOver => (app.last_speech_id # 0 <=> DoneEvents # {})
    /\ Caught =>
           /\ app.last_speech_id = 0
           /\ Raised.message # <<>>
           /\ ErrorRecorded

\* C30: when the generate handler is over, a speech was saved exactly when
\* the done tuple came with a final text that is not empty; a run that ended
\* with done and an empty final text saves nothing and records no error. When
\* the run raised the RuntimeError nothing was saved, its message is recorded
\* (and shown on the rerun) and running is false; an exception of another
\* type leaves the handler with running still true and nothing recorded.
C30_SavedIffFinalText ==
    /\ HandlerOver =>
           /\ app.last_speech_id # 0 <=>
                  \E j \in DoneEvents : events[j].data.final_text # <<>>
           /\ app.last_speech_id # 0 =>
                  /\ app.last_speech_id < db.next_id
                  /\ app.final_text.text = events[Len(events)].data.final_text
           /\ DoneEvents # {} => (app.error = NoError /\ app.steps = Len(events) \div 2 + 1)
    /\ Caught =>
           /\ app.last_speech_id = 0
           /\ app.final_text = NoneText
           /\ Raised.type = "RuntimeError"
           /\ Raised.message # <<>>
           /\ ErrorRecorded
    /\ Escaped =>
           /\ app.last_speech_id = 0
           /\ app.error = NoError
    /\ (app.on /\ app.running) => app.last_speech_id = 0

C30_Witness ==
    /\ HandlerOver
    /\ pc = At("done", 0, "finished")
    /\ app.final_text = [set |-> TRUE, text |-> <<>>]
    /\ app.last_speech_id = 0
    /\ ledger.generated = 1
    /\ db.speeches = {1}
    /\ app.error = NoError

====
